---- MODULE Spec2Model ----
(***************************************************************************)
(* Request handlers of the tokyo-banhmi-order payment gateway adapter.     *)
(*                                                                         *)
(* Handlers are stateless: every invocation starts from the same program   *)
(* state, so a behaviour follows one inbound request from its arrival to   *)
(* its response (and, for terminal-checkout, the same request submitted    *)
(* again).  The state is the request, the deployment of the handler that   *)
(* serves it, the position of the handler (pc), the retry executor's       *)
(* bookkeeping, the outbound vendor calls issued, the abort timer and the  *)
(* clock, the HTTP responses written, and the vendor platform's            *)
(* idempotency store.  Spec is the request flow; BuildSpec is the          *)
(* construction of the vendor request body from the payload's free-text    *)
(* fields and line items.                                                  *)
(*                                                                         *)
(* Vocabulary used throughout: a vendor RESPONSE is an HTTP response whose *)
(* body was read and parsed (ok or non-OK); a call that rejects (network   *)
(* failure) or whose body does not parse is an EXCEPTION.                  *)
(***************************************************************************)
EXTENDS Integers, Sequences, FiniteSets, TLC

VARIABLES
    handler,    \* which handler serves the current request
    req,        \* the inbound request
    menv,       \* deployment: module constants (from process.env), router in front
    pc,         \* position of the handler
    attempt,    \* number of the retry executor's current attempt (1-based)
    errors,     \* retry operation's _errors (see NoErrors)
    calls,      \* outbound vendor calls issued for the current request
    cur,        \* the vendor call in flight (timer-armed / plain fetch handlers)
    timer,      \* the 20 s abort timer: "unarmed", "armed", "cleared", "fired"
    resp,       \* HTTP responses written for the current request
    thrown,     \* the error the retry executor rejected with (NoErr: none)
    vendor,     \* vendor platform: <<endpoint, idempotency key>> already processed
    created,    \* entities the vendor created while serving the current request
    seen,       \* history: the last vendor response received (status and parsed body)
    nthrow,     \* history: how many outbound calls ended in an exception
    now,        \* wall-clock time since the request arrived, in ms
    order,      \* history: the parsed answer to the order-creation call
    vcard,      \* history: the card as the vendor returned it
    nuuid,      \* how many values crypto.randomUUID() has returned so far
    prevKeys,   \* history: order keys sent for the earlier submissions of the request
    pin,        \* the payload fields a vendor request body is built from
    built       \* the parts of the vendor request body built from pin

vars == <<handler, req, menv, pc, attempt, errors, calls, cur, timer, resp,
          thrown, vendor, created, seen, nthrow, now,
          order, vcard, nuuid, prevKeys, pin, built>>

\* the variables of the request-body construction
buildVars == <<pin, built>>

----------------------------------------------------------------------------
(* Program constants *)

\* async-retry's default number of retries (options.retries is not passed)
Retries == 10

\* delay of the abort timer
SQUARE_REQUEST_TIMEOUT_MS == 20000

\* the clock is observed in steps of half the timer's delay
TickMs == SQUARE_REQUEST_TIMEOUT_MS \div 2

----------------------------------------------------------------------------
(* Handlers *)

SdkPaymentHandlers == {"srvPayment", "paySdk"}
SdkCardHandlers    == {"srvCard", "apiCard"}
SdkHandlers        == SdkPaymentHandlers \cup SdkCardHandlers
RetryHandlers      == SdkHandlers \cup {"payRetry"}
TimerHandlers      == {"payFetch", "terminal"}
FetchHandlers      == TimerHandlers \cup {"status", "items"}
PaymentHandlers    == SdkPaymentHandlers \cup {"payRetry", "payFetch"}
MicroHandlers      == {"srvPayment", "srvCard"}
Handlers           == RetryHandlers \cup FetchHandlers \cup {"config"}

\* the handlers server.js registers a route for (createPayment and storeCard
\* are its own; the others are api handlers behind microAdapter)
RoutedHandlers == MicroHandlers \cup {"config", "items", "terminal", "status"}

----------------------------------------------------------------------------
(* Inputs *)

Methods == {"OPTIONS", "POST", "GET", "PUT"}

Keys == {"k1", "k2"}

Payloads ==
    [idempotencyKey : {""} \cup Keys,
     sourceId       : {"", "src"},
     locationId     : {"", "loc"},
     customerId     : {"", "cust"},
     amount         : {"none", "n", "frac"}]

NoPayload ==
    [idempotencyKey |-> "", sourceId |-> "", locationId |-> "",
     customerId |-> "", amount |-> "none"]

\* a checkout_id as it appears in req.query or in the query string of req.url
IdValues == {"absent", "empty", "chk"}

MkReq(m, parse, p, q, u) ==
    [method |-> m, parse |-> parse, p |-> p, qid |-> q, uid |-> u]

NoReq == MkReq("GET", "ok", NoPayload, "absent", "absent")

\* messages of the exceptions an outbound call can raise
Messages == {"fetch failed", "Unexpected token"}

\* messages of the exceptions an attempt can raise outside its vendor call:
\* the RangeError of BigInt() and the TypeError of undefined.toString()
RangeErrorMessage == "cannot be converted to a BigInt"

TypeErrorMessage == "Cannot read properties of undefined"

LocalMessages == {RangeErrorMessage, TypeErrorMessage}

\* the message of a vendor rejection ("none": the body has no message)
VendorMessages == {"none", "M1"}

\* non-OK HTTP status codes of the vendor
ErrStatuses == {400, 402, 429, 500}

----------------------------------------------------------------------------
(* HTTP responses written by the handlers *)

\* kind: "end" (no body), "error" ({error: val}), "errors" ({errors: val}),
\* "success" ({success: true, ...}), "text" (micro's error text),
\* "data" (vendor body passed through)
\* n.toString() / String(n) of a non-negative integer: its decimal digits
Digit(d) == <<"0", "1", "2", "3", "4", "5", "6", "7", "8", "9">>[d + 1]

RECURSIVE ToDecimal(_)
ToDecimal(n) ==
    IF n < 10 THEN <<Digit(n)>>
    ELSE Append(ToDecimal(n \div 10), Digit(n % 10))

\* a JSON-bound value: type "number", "bigint" (num holds it), "string" (str
\* holds its characters) or "none" (no such property)
MkValue(type, num, str) == [type |-> type, num |-> num, str |-> str]

NoValue == MkValue("none", 0, <<>>)

\* the properties of a card that the handlers convert
MkCard(expMonth, expYear, version) ==
    [expMonth |-> expMonth, expYear |-> expYear, version |-> version]

NoCard == MkCard(NoValue, NoValue, NoValue)

\* cors: the Access-Control-Allow-* headers are set on the response;
\* card: the card of a card-storage success response
MkResp(status, kind, val) ==
    [status |-> status, kind |-> kind, val |-> val, cors |-> FALSE,
     card |-> NoCard]

\* a response as it leaves handler h: the api handlers set the CORS headers
\* before anything else, createPayment and storeCard of server.js set none
Sent(h, r) == [r EXCEPT !.cors = h \notin MicroHandlers]

Pass == MkResp(0, "pass", "")

----------------------------------------------------------------------------
(* Payload validator (server/schema) *)

NonEmpty(s) == s # ""

validatePaymentPayload(p) ==
    /\ NonEmpty(p.idempotencyKey)
    /\ NonEmpty(p.sourceId)
    /\ NonEmpty(p.locationId)

validateCreateCardPayload(p) ==
    /\ NonEmpty(p.idempotencyKey)
    /\ NonEmpty(p.sourceId)
    /\ NonEmpty(p.customerId)

----------------------------------------------------------------------------
(* Local checks made before any outbound call, in the order of the code *)

\* OPTIONS / method check shared by the api handlers
MethodCheck(r, own) ==
    IF r.method = "OPTIONS" THEN MkResp(200, "end", "")
    ELSE IF r.method # own THEN MkResp(405, "error", "Method Not Allowed")
    ELSE Pass

BadRequest == MkResp(400, "error", "Bad Request")

TokenMissing == MkResp(500, "error", "SQUARE_ACCESS_TOKEN not configured")

\* api/card.js
PreCheckApiCard(r, e) ==
    IF MethodCheck(r, "POST") # Pass THEN MethodCheck(r, "POST")
    ELSE IF r.parse = "bad" THEN BadRequest
    ELSE IF ~validateCreateCardPayload(r.p) THEN BadRequest
    ELSE Pass

\* api/payment.js, SDK variant
PreCheckPaySdk(r, e) ==
    IF MethodCheck(r, "POST") # Pass THEN MethodCheck(r, "POST")
    ELSE IF r.parse = "bad" THEN BadRequest
    ELSE IF ~validatePaymentPayload(r.p) THEN BadRequest
    ELSE Pass

\* variant of PreCheckPayFetch that does not call the validator
PreCheckPayFetch_NoValidation(r, e) ==
    IF MethodCheck(r, "POST") # Pass THEN MethodCheck(r, "POST")
    ELSE IF r.parse = "bad" THEN BadRequest
    ELSE IF ~e.token THEN TokenMissing
    ELSE Pass

\* api/payment.js, direct fetch variant
PreCheckPayFetch(r, e) ==
    IF MethodCheck(r, "POST") # Pass THEN MethodCheck(r, "POST")
    ELSE IF r.parse = "bad" THEN BadRequest
    ELSE IF ~validatePaymentPayload(r.p) THEN BadRequest
    ELSE IF ~e.token THEN TokenMissing
    ELSE Pass

\* api/payment.js, retry + fetch variant
PreCheckPayRetry(r, e) ==
    IF MethodCheck(r, "POST") # Pass THEN MethodCheck(r, "POST")
    ELSE IF r.parse = "bad" THEN BadRequest
    ELSE IF ~validatePaymentPayload(r.p) THEN BadRequest
    ELSE IF ~e.token THEN TokenMissing
    ELSE Pass

\* variant of PreCheckTerminal that looks at the configuration before the body
PreCheckTerminal_ConfigFirst(r, e) ==
    IF MethodCheck(r, "POST") # Pass THEN MethodCheck(r, "POST")
    ELSE IF ~e.token THEN TokenMissing
    ELSE IF ~e.device
         THEN MkResp(500, "error", "SQUARE_TERMINAL_DEVICE_ID not configured")
    ELSE IF r.parse = "bad" THEN BadRequest
    ELSE IF r.p.amount = "none" \/ ~NonEmpty(r.p.locationId) THEN BadRequest
    ELSE Pass

\* api/terminal-checkout.js
PreCheckTerminal(r, e) ==
    IF MethodCheck(r, "POST") # Pass THEN MethodCheck(r, "POST")
    ELSE IF r.parse = "bad" THEN BadRequest
    ELSE IF r.p.amount = "none" \/ ~NonEmpty(r.p.locationId) THEN BadRequest
    ELSE IF ~e.token THEN TokenMissing
    ELSE IF ~e.device
         THEN MkResp(500, "error", "SQUARE_TERMINAL_DEVICE_ID not configured")
    ELSE Pass

\* checkout_id = req.query.checkout_id || searchParams.get('checkout_id')
CheckoutId(r) ==
    IF r.qid \notin {"absent", "empty"} THEN r.qid ELSE r.uid

\* variant of PreCheckStatus that checks the access token first
PreCheckStatus_TokenFirst(r, e) ==
    IF MethodCheck(r, "GET") # Pass THEN MethodCheck(r, "GET")
    ELSE IF ~e.token THEN TokenMissing
    ELSE IF CheckoutId(r) \in {"absent", "empty"}
         THEN MkResp(400, "error", "checkout_id is required")
    ELSE Pass

\* api/terminal-checkout-status.js
PreCheckStatus(r, e) ==
    IF MethodCheck(r, "GET") # Pass THEN MethodCheck(r, "GET")
    ELSE IF CheckoutId(r) \in {"absent", "empty"}
         THEN MkResp(400, "error", "checkout_id is required")
    ELSE IF ~e.token THEN TokenMissing
    ELSE Pass

\* api/items.js
PreCheckItems(r, e) ==
    IF MethodCheck(r, "GET") # Pass THEN MethodCheck(r, "GET")
    ELSE IF ~e.token THEN TokenMissing
    ELSE Pass

\* server.js createPayment: json(req) and createError(400) are answered by micro
PreCheckSrvPayment(r, e) ==
    IF r.parse = "bad" THEN MkResp(400, "text", "Invalid JSON")
    ELSE IF ~validatePaymentPayload(r.p) THEN MkResp(400, "text", "Bad Request")
    ELSE Pass

\* server.js storeCard
PreCheckSrvCard(r, e) ==
    IF r.parse = "bad" THEN MkResp(400, "text", "Invalid JSON")
    ELSE IF ~validateCreateCardPayload(r.p) THEN MkResp(400, "text", "Bad Request")
    ELSE Pass

\* api/config.js: answers every request locally
PreCheckConfig(r, e) ==
    IF MethodCheck(r, "GET") # Pass THEN MethodCheck(r, "GET")
    ELSE MkResp(200, "data", "config")

\* the method of the route server.js registers for a handler
RouteMethod(h) ==
    IF h \in {"config", "items", "status"} THEN "GET" ELSE "POST"

\* server.js router: the first route whose method and path match; a GET
\* that matches no other route falls to get('/*', serveStatic); any other
\* request matches no route
Route(h, r, e) ==
    IF ~e.server THEN "handler"
    ELSE IF r.method = RouteMethod(h) THEN "handler"
    ELSE IF r.method = "GET" THEN "static"
    ELSE "none"

\* what a request gets that server.js routes to no handler: serve-handler
\* finds no file of that name under public/ (404); without any route, the
\* router returns false and micro fails to send it (500)
RouterAnswer(route) ==
    IF route = "static" THEN MkResp(404, "static", "")
    ELSE MkResp(500, "text", "Internal Server Error")

PreCheck(h, r, e) ==
    CASE h = "config" -> PreCheckConfig(r, e)
      [] h = "apiCard"    -> PreCheckApiCard(r, e)
      [] h = "paySdk"     -> PreCheckPaySdk(r, e)
      [] h = "payFetch"   -> PreCheckPayFetch(r, e)
      [] h = "payRetry"   -> PreCheckPayRetry(r, e)
      [] h = "terminal"   -> PreCheckTerminal(r, e)
      [] h = "status"     -> PreCheckStatus(r, e)
      [] h = "items"      -> PreCheckItems(r, e)
      [] h = "srvPayment" -> PreCheckSrvPayment(r, e)
      [] h = "srvCard"    -> PreCheckSrvCard(r, e)

----------------------------------------------------------------------------
(* The vendor platform *)

\* what an outbound call can come to:
\*   "ok"     the vendor processed the call and answered with an OK response
\*   "reject" the vendor rejected the call: a SquareError in the SDK, a non-OK
\*            response with a JSON body (errors and/or message) over fetch
\*   "throw"  the call raised another exception (network failure, body that
\*            does not parse); the vendor may have processed it all the same
MkOutcome(type, status, errs, message, processed) ==
    [type |-> type, status |-> status, errors |-> errs, message |-> message,
     processed |-> processed]

OkOutcomes == {MkOutcome("ok", 200, "none", "none", TRUE)}

RejectOutcomes ==
    {MkOutcome("reject", s, e, m, FALSE) :
        s \in ErrStatuses, e \in {"none", "E1"}, m \in VendorMessages}

ThrowOutcomes ==
    {MkOutcome("throw", 0, "none", m, p) : m \in Messages, p \in BOOLEAN}

Outcomes == OkOutcomes \cup RejectOutcomes \cup ThrowOutcomes

\* the vendor answers OK only to a call that carries the bearer credential
Authorized(e, o) == o.type = "ok" => e.token

\* endpoints whose calls create an entity at the vendor
Creating == {"payments", "cards", "orders", "checkouts"}

\* the vendor deduplicates by <<endpoint, idempotency key>>
Deliver(endpoint, key, o) ==
    IF o.processed /\ endpoint \in Creating /\ <<endpoint, key>> \notin vendor
    THEN /\ vendor' = vendor \cup {<<endpoint, key>>}
         /\ created' = created + 1
    ELSE UNCHANGED <<vendor, created>>

----------------------------------------------------------------------------
(* Errors travelling through the retry executor *)

\* class: "square" (SquareError), "http" (Error built from a non-OK response),
\* "other" (any other exception); att: the attempt that raised it
MkErr(class, status, errs, message, att) ==
    [class |-> class, status |-> status, errors |-> errs, message |-> message,
     att |-> att]

NoErr == MkErr("none", 0, "none", "none", 0)

\* history record of a vendor response: at is the number of the call (in
\* calls) that it answers
MkSeen(at, ok, status, errs, message, hasEntity) ==
    [at |-> at, ok |-> ok, status |-> status, errors |-> errs,
     message |-> message, hasEntity |-> hasEntity]

NoSeen == MkSeen(0, FALSE, 0, "none", "none", FALSE)

\* the history variables after a call of the SDK / of the retried fetch
Observe(o) ==
    /\ seen' = IF o.type = "throw" THEN seen
               ELSE MkSeen(Len(calls) + 1, o.type = "ok", o.status, o.errors,
                           o.message, o.type = "ok")
    /\ nthrow' = IF o.type = "throw" THEN nthrow + 1 ELSE nthrow

----------------------------------------------------------------------------
(* The retry executor (async-retry over the retry package) *)

\* The operation's _errors, kept as the running state of the pass that
\* RetryOperation.mainError() makes over it: n errors pushed, counts[m] of
\* them with message m, and the main error so far (its attempt, message and
\* the count its message had when it was pushed).
NoErrors ==
    [n |-> 0,
     counts |-> [m \in Messages \cup VendorMessages \cup LocalMessages |-> 0],
     mainIdx |-> 0, mainMsg |-> "none", mainCount |-> 0]

\* _errors.push(err), with the step of mainError()'s loop for err:
\*   count = (counts[message] || 0) + 1; counts[message] = count;
\*   if (count >= mainErrorCount) { mainError = error; mainErrorCount = count }
PushError(E, m) ==
    LET count == E.counts[m] + 1
        isMain == count >= E.mainCount
    IN  [n |-> E.n + 1,
         counts |-> [E.counts EXCEPT ![m] = count],
         mainIdx |-> IF isMain THEN E.n + 1 ELSE E.mainIdx,
         mainMsg |-> IF isMain THEN m ELSE E.mainMsg,
         mainCount |-> IF isMain THEN count ELSE E.mainCount]

\* RetryOperation.retry(err), called after err was pushed on _errors: one of
\* the Retries timeouts is shifted off, and there is a retry iff one was left
OpRetry(E) == E.n <= Retries

----------------------------------------------------------------------------
(* What the handlers answer when retry() rejects *)

InternalError == MkResp(500, "error", "Internal Server Error")

\* api/card.js and api/payment.js (SDK variant): the catch around retry()
OnRejectApiSdk(ex) ==
    IF ex.class = "square" /\ ex.errors # "none"
    THEN MkResp(400, "errors", ex.errors)
    ELSE InternalError

\* api/payment.js (retry + fetch variant): the catch around retry()
OnRejectPayRetry(ex) ==
    MkResp(IF ex.status # 0 THEN ex.status ELSE 400,
           IF ex.errors # "none" THEN "errors" ELSE "error",
           IF ex.errors # "none" THEN ex.errors
           ELSE IF ex.message # "none" THEN ex.message ELSE "Payment failed")

\* server.js: createPayment / storeCard let the rejection escape to micro,
\* which answers with the error's statusCode and message, or with 500
OnRejectMicro(ex) ==
    IF ex.status # 0 THEN MkResp(ex.status, "text", ex.message)
    ELSE MkResp(500, "text", "Internal Server Error")

OnReject(h, ex) ==
    CASE h \in {"apiCard", "paySdk"} -> OnRejectApiSdk(ex)
      [] h = "payRetry" -> OnRejectPayRetry(ex)
      [] h \in MicroHandlers -> OnRejectMicro(ex)

----------------------------------------------------------------------------
(* What one attempt does with the outcome of its vendor call *)

\* variant of SdkCatch that rethrows a SquareError like any other exception
SdkCatch_NeverBails(o) == "throw"

\* the catch inside the retried function of the SDK handlers:
\* a SquareError bails, anything else is rethrown to the executor
SdkCatch(o) == IF o.type = "reject" THEN "bail" ELSE "throw"

\* variant of FetchAttempt that treats 429 and 5xx responses as transient
FetchAttempt_RetriesServerErrors(o) ==
    IF o.type = "throw" THEN "throw"
    ELSE IF o.type = "reject" THEN (IF o.status >= 429 THEN "throw" ELSE "bail")
    ELSE "ok"

\* variant of FetchAttempt that catches an exception of fetch() and bails
FetchAttempt_BailsOnThrow(o) == IF o.type = "ok" THEN "ok" ELSE "bail"

\* the retried function of the retry + fetch variant: a non-OK response
\* bails; an exception of fetch() or response.json() escapes to the executor
FetchAttempt(o) ==
    IF o.type = "throw" THEN "throw"
    ELSE IF o.type = "reject" THEN "bail"
    ELSE "ok"

\* variant of IdempotencyKeyOf that generates a key for every new attempt
IdempotencyKeyOf_PerAttempt(p, att) ==
    IF att <= 1 THEN p.idempotencyKey ELSE "uuid-1"

\* the idempotency key an attempt puts in its request
IdempotencyKeyOf(p, att) == p.idempotencyKey

EndpointOf(h) == IF h \in SdkCardHandlers THEN "cards" ELSE "payments"

\* an outbound call: its endpoint, its idempotency key, and (checkout call)
\* the order_id its body refers to
MkCall(endpoint, key) == [endpoint |-> endpoint, key |-> key, ref |-> ""]

\* order_res.ok and order_data.order?.id ("": no order id in the body)
NoOrder == [ok |-> FALSE, id |-> ""]

NoEnv == [token |-> FALSE, device |-> FALSE, server |-> FALSE]

NoCall ==
    [endpoint |-> "none", key |-> "", ref |-> "", phase |-> 0, ok |-> FALSE,
     status |-> 0, start |-> 0]

----------------------------------------------------------------------------
(* Text values *)

\* A text is kept run-length encoded: a sequence of runs [ch, n] with n >= 1
\* and no two neighbouring runs of the same character; <<>> is ''.
Str(ch, n) == IF n = 0 THEN <<>> ELSE <<[ch |-> ch, n |-> n]>>

\* s.length
RECURSIVE length(_)
length(s) == IF s = <<>> THEN 0 ELSE Head(s).n + length(Tail(s))

\* s + t
concat(s, t) ==
    IF s = <<>> THEN t
    ELSE IF t = <<>> THEN s
    ELSE IF s[Len(s)].ch = t[1].ch
         THEN SubSeq(s, 1, Len(s) - 1)
              \o <<[ch |-> t[1].ch, n |-> s[Len(s)].n + t[1].n]>>
              \o Tail(t)
    ELSE s \o t

\* s.slice(0, k)
RECURSIVE slice(_, _)
slice(s, k) ==
    IF s = <<>> \/ k <= 0 THEN <<>>
    ELSE IF Head(s).n >= k THEN <<[ch |-> Head(s).ch, n |-> k]>>
    ELSE <<Head(s)>> \o slice(Tail(s), k - Head(s).n)

\* s.trim()
trim(s) ==
    LET a == IF s # <<>> /\ Head(s).ch = " " THEN Tail(s) ELSE s
    IN  IF a # <<>> /\ a[Len(a)].ch = " " THEN SubSeq(a, 1, Len(a) - 1) ELSE a

\* x || d for texts
OrElse(x, d) == IF x # <<>> THEN x ELSE d

\* ' / '
Sep == concat(concat(Str(" ", 1), Str("/", 1)), Str(" ", 1))

\* `${a} / ${b}` and `${a} / ${b} / ${c}`
Join2(a, b) == concat(concat(a, Sep), b)
Join3(a, b, c) == concat(concat(Join2(a, b), Sep), c)

\* the default names: 'O' stands for the 2 characters of the payment
\* handlers' default product name, 'U' for the 5 characters of the default
\* customer name, 'B' for the 5 characters of the terminal handler's default
\* product name
DefaultProductName == Str("O", 2)
DefaultCustomerName == Str("U", 5)
DefaultTerminalProductName == Str("B", 5)

----------------------------------------------------------------------------
(* The note sent to the vendor *)

MkNote(hasNote, product, customer, notes, note) ==
    [hasNote |-> hasNote, product |-> product, customer |-> customer,
     notes |-> notes, note |-> note]

NoNote == MkNote(FALSE, <<>>, <<>>, <<>>, <<>>)

\* api/payment.js, both fetch variants
NoteOfFetchPayment(p) ==
    IF p.customerName = <<>> /\ p.productName = <<>> THEN NoNote
    ELSE LET productName == slice(OrElse(p.productName, DefaultProductName), 200)
             customerName == slice(OrElse(p.customerName, DefaultCustomerName), 100)
             customerNotes == slice(trim(p.customerNotes), 200)
             note == IF customerNotes # <<>>
                     THEN Join3(productName, customerName, customerNotes)
                     ELSE Join2(productName, customerName)
         IN  MkNote(TRUE, productName, customerName, customerNotes,
                    slice(note, 500))

\* server.js createPayment and the SDK variant of api/payment.js
NoteOfSdkPayment(p) ==
    IF p.customerName = <<>> /\ p.productName = <<>> THEN NoNote
    ELSE LET productName == OrElse(p.productName, DefaultProductName)
             customerName == OrElse(p.customerName, DefaultCustomerName)
             customerNotes == trim(p.customerNotes)
         IN  MkNote(TRUE, productName, customerName, customerNotes,
                    IF customerNotes # <<>>
                    THEN Join3(productName, customerName, customerNotes)
                    ELSE Join2(productName, customerName))

\* api/terminal-checkout.js
product_name(p) == slice(OrElse(p.productName, DefaultTerminalProductName), 200)

NoteOfTerminal(p) ==
    LET customer_name == slice(OrElse(p.customerName, DefaultCustomerName), 100)
        customer_notes == slice(trim(p.customerNotes), 200)
        note == IF customer_notes # <<>>
                THEN Join3(product_name(p), customer_name, customer_notes)
                ELSE Join2(product_name(p), customer_name)
    IN  MkNote(TRUE, product_name(p), customer_name, customer_notes,
               slice(note, 500))

NoteOf(h, p) ==
    CASE h \in {"payFetch", "payRetry"} -> NoteOfFetchPayment(p)
      [] h \in SdkPaymentHandlers -> NoteOfSdkPayment(p)
      [] h = "terminal" -> NoteOfTerminal(p)

----------------------------------------------------------------------------
(* Construction of the vendor request body *)

\* an optional number: {} when the property is absent, {n} when it is n
Some(x) == CHOOSE v \in x : TRUE

\* the fallback of `Number(payload.amount) || 940`
DefaultAmount == 940

\* an element of payload.line_items
\* (id1..id4: its catalog_object_id, catalogObjectId, variationId, variation_id)
MkItem(id1, id2, id3, id4, quantity, name, price) ==
    [catalog_object_id |-> id1, catalogObjectId |-> id2,
     variationId |-> id3, variation_id |-> id4,
     quantity |-> quantity, name |-> name, price |-> price]

\* a line item of the order body: kind "catalog" {catalog_object_id,
\* quantity} or kind "named" {name, quantity, base_price_money.amount}
MkLineItem(kind, catalog_object_id, name, quantity, amount) ==
    [kind |-> kind, catalog_object_id |-> catalog_object_id, name |-> name,
     quantity |-> quantity, amount |-> amount]

amount_num(p) == IF p.amount # 0 THEN p.amount ELSE DefaultAmount

catalog_object_id(p) ==
    IF p.catalog_object_id # <<>> THEN trim(p.catalog_object_id) ELSE <<>>

id_from_item(item) ==
    OrElse(OrElse(OrElse(item.catalog_object_id, item.catalogObjectId),
                  item.variationId), item.variation_id)

\* the function mapped over payload.line_items
MapItem(item, p) ==
    LET quantity == IF item.quantity # {} THEN ToDecimal(Some(item.quantity))
                    ELSE <<"1">>
    IN  IF id_from_item(item) # <<>>
        THEN MkLineItem("catalog", id_from_item(item), <<>>, quantity, 0)
        ELSE MkLineItem("named", <<>>,
                        slice(OrElse(item.name, product_name(p)), 512),
                        quantity,
                        IF item.price # {} THEN Some(item.price)
                        ELSE amount_num(p))

\* variant of order_line_items that looks at catalog_object_id first
order_line_items_CatalogFirst(p) ==
    IF catalog_object_id(p) # <<>>
    THEN <<MkLineItem("catalog", catalog_object_id(p), <<>>, <<"1">>, 0)>>
    ELSE IF Len(p.line_items) > 0
    THEN [i \in 1..Len(p.line_items) |-> MapItem(p.line_items[i], p)]
    ELSE <<MkLineItem("named", <<>>, product_name(p), <<"1">>, amount_num(p))>>

order_line_items(p) ==
    IF Len(p.line_items) > 0
    THEN [i \in 1..Len(p.line_items) |-> MapItem(p.line_items[i], p)]
    ELSE IF catalog_object_id(p) # <<>>
    THEN <<MkLineItem("catalog", catalog_object_id(p), <<>>, <<"1">>, 0)>>
    ELSE <<MkLineItem("named", <<>>, product_name(p), <<"1">>, amount_num(p))>>

MkPin(h, productName, customerName, customerNotes, line_items, catalog, amount) ==
    [h |-> h, productName |-> productName, customerName |-> customerName,
     customerNotes |-> customerNotes, line_items |-> line_items,
     catalog_object_id |-> catalog, amount |-> amount,
     NODE_ENV |-> "", SQUARE_ENVIRONMENT |-> ""]

NoPin == MkPin("none", <<>>, <<>>, <<>>, <<>>, <<>>, 0)

\* process.env as the modules read it when they are loaded
MkProcessEnv(node_env, square_environment) ==
    [NoPin EXCEPT !.h = "env", !.NODE_ENV = node_env,
                  !.SQUARE_ENVIRONMENT = square_environment]

\* values of NODE_ENV and of SQUARE_ENVIRONMENT; "" is an unset variable
NodeEnvs == {"", "development", "test", "production"}

SquareEnvironments == {"", "sandbox", "production"}

ProcessEnvs ==
    {MkProcessEnv(n, s) : n \in NodeEnvs, s \in SquareEnvironments}

SandboxUrl == "https://connect.squareupsandbox.com"

ProductionUrl == "https://connect.squareup.com"

\* the base URL of the direct fetch payment handler, of the terminal
\* handlers and of the items handler
SQUARE_BASE_URL(e) ==
    IF e.SQUARE_ENVIRONMENT = "sandbox" THEN SandboxUrl ELSE ProductionUrl

\* the retry + fetch payment handler also looks at NODE_ENV
useSandbox(e) ==
    \/ e.SQUARE_ENVIRONMENT = "sandbox"
    \/ (e.NODE_ENV # "production" /\ e.SQUARE_ENVIRONMENT # "production")

SQUARE_BASE(e) == IF useSandbox(e) THEN SandboxUrl ELSE ProductionUrl

\* GET /api/config
is_sandbox(e) == e.SQUARE_ENVIRONMENT = "sandbox"

squareEnvironment(e) == IF is_sandbox(e) THEN "sandbox" ELSE "production"

\* the configuration loader and the credential file it reads
isProduction(e) ==
    e.NODE_ENV = "production" /\ e.SQUARE_ENVIRONMENT # "sandbox"

path(e) == IF isProduction(e) THEN ".env.production" ELSE ".env.sandbox"

\* the environment a base URL, a reported name or a credential file stands for
Designates(x) ==
    IF x \in {SandboxUrl, "sandbox", ".env.sandbox"}
    THEN "sandbox"
    ELSE "production"

\* the components that select an environment
Components == {"payFetch", "payRetry", "terminal", "status", "items",
               "config", "loader"}

Selects(c, e) ==
    CASE c = "payRetry" -> SQUARE_BASE(e)
      [] c = "config" -> squareEnvironment(e)
      [] c = "loader" -> path(e)
      [] OTHER -> SQUARE_BASE_URL(e)

NoSelection == [c \in Components |-> ""]

NoBuilt ==
    [done |-> FALSE, note |-> NoNote, line_items |-> <<>>, amount_money |-> 0,
     env |-> NoSelection]

\* longest payload.line_items considered
MaxItems == 2

Items ==
    {MkItem(Str("k", 3), <<>>, <<>>, <<>>, {}, <<>>, {}),
     MkItem(<<>>, <<>>, Str("v", 3), <<>>, {2}, Str("i", 4), {500}),
     MkItem(Str("k", 3), <<>>, Str("v", 3), <<>>, {12}, <<>>, {}),
     MkItem(<<>>, <<>>, <<>>, <<>>, {}, Str("i", 4), {500}),
     MkItem(<<>>, <<>>, <<>>, <<>>, {2}, <<>>, {})}

ItemLists == UNION {[1..n -> Items] : n \in 0..MaxItems}

\* payload.catalog_object_id: absent, blank, an id
CatalogIds == {<<>>, Str(" ", 2), Str("c", 3)}

Amounts == {0, 1200}

ProductNames == {<<>>, Str("p", 9), Str("p", 200), Str("p", 300)}

CustomerNames == {<<>>, Str("c", 6), Str("c", 100), Str("c", 150)}

\* customerNotes: absent, blank, ' nnnnnnnnn ', and long ones
NotesValues ==
    {<<>>, Str(" ", 3),
     concat(concat(Str(" ", 1), Str("n", 9)), Str(" ", 1)),
     Str("n", 200), Str("n", 300)}

BuildInputs ==
    {MkPin(h, p, c, n, <<>>, <<>>, 1200) :
        h \in PaymentHandlers \cup {"terminal"},
        p \in ProductNames, c \in CustomerNames, n \in NotesValues}
    \cup {MkPin("terminal", p, <<>>, <<>>, l, k, a) :
            p \in {<<>>, Str("p", 9)}, l \in ItemLists, k \in CatalogIds,
            a \in Amounts}
    \cup ProcessEnvs

\* the state before a request body is built from a payload
BuildInit ==
    /\ handler = "none"
    /\ req = NoReq
    /\ menv = NoEnv
    /\ pc = "idle"
    /\ attempt = 0
    /\ errors = NoErrors
    /\ calls = <<>>
    /\ cur = NoCall
    /\ timer = "unarmed"
    /\ resp = <<>>
    /\ thrown = NoErr
    /\ vendor = {}
    /\ created = 0
    /\ seen = NoSeen
    /\ nthrow = 0
    /\ now = 0
    /\ prevKeys = <<>>
    /\ nuuid = 0
    /\ vcard = NoCard
    /\ order = NoOrder
    /\ pin \in BuildInputs
    /\ built = NoBuilt

mainVars == <<handler, req, menv, pc, attempt, errors, calls, cur, timer,
              resp, thrown, vendor, created, seen, nthrow, now,
              order, vcard, nuuid, prevKeys>>

\* a payment handler builds the body of its payment call
BuildPaymentBody ==
    /\ ~built.done
    /\ pin.h \in PaymentHandlers
    /\ built' = [NoBuilt EXCEPT !.done = TRUE, !.note = NoteOf(pin.h, pin)]
    /\ UNCHANGED <<mainVars, pin>>

\* the terminal handler builds the bodies of its order and checkout calls
BuildTerminalBodies ==
    /\ ~built.done
    /\ pin.h = "terminal"
    /\ built' = [NoBuilt EXCEPT !.done = TRUE, !.note = NoteOf(pin.h, pin),
                                !.line_items = order_line_items(pin),
                                !.amount_money = amount_num(pin)]
    /\ UNCHANGED <<mainVars, pin>>

\* the modules are loaded: each one selects its environment from process.env
LoadModules ==
    /\ ~built.done
    /\ pin.h = "env"
    /\ built' = [NoBuilt EXCEPT !.done = TRUE,
                                !.env = [c \in Components |-> Selects(c, pin)]]
    /\ UNCHANGED <<mainVars, pin>>

BuildNext == BuildPaymentBody \/ BuildTerminalBodies \/ LoadModules

BuildSpec == BuildInit /\ [][BuildNext]_vars

----------------------------------------------------------------------------
(* State machine *)

Init ==
    /\ handler = "none"
    /\ req = NoReq
    /\ menv = NoEnv
    /\ pc = "idle"
    /\ attempt = 0
    /\ errors = NoErrors
    /\ calls = <<>>
    /\ cur = NoCall
    /\ timer = "unarmed"
    /\ resp = <<>>
    /\ thrown = NoErr
    /\ vendor = {}
    /\ created = 0
    /\ seen = NoSeen
    /\ nthrow = 0
    /\ now = 0
    /\ prevKeys = <<>>
    /\ nuuid = 0
    /\ vcard = NoCard
    /\ order = NoOrder
    /\ pin = NoPin
    /\ built = NoBuilt

\* the requests a handler can be given
PayloadReqs(ps) ==
    {MkReq(m, "ok", p, "absent", "absent") : m \in Methods, p \in ps}
    \cup {MkReq(m, "bad", NoPayload, "absent", "absent") : m \in Methods}

CardPayloads == {p \in Payloads : p.locationId = "" /\ p.amount = "none"}

\* payloads with an amount that is absent or an integer ("n"), and the
\* payloads whose amount is a number with a fractional part ("frac")
PaymentPayloads == {p \in Payloads : p.customerId = "" /\ p.amount # "frac"}

FractionalPayloads == {p \in Payloads : p.customerId = "" /\ p.amount = "frac"}

ReqsFor(h) ==
    CASE h \in SdkCardHandlers -> PayloadReqs(CardPayloads)
      [] h \in SdkPaymentHandlers ->
            PayloadReqs(PaymentPayloads \cup FractionalPayloads)
      [] h \in PaymentHandlers \cup {"terminal"} -> PayloadReqs(PaymentPayloads)
      [] h = "status" ->
            {MkReq(m, "ok", NoPayload, q, u) :
                m \in Methods, q \in IdValues, u \in IdValues}
      [] h \in {"items", "config"} ->
            {MkReq(m, "ok", NoPayload, "absent", "absent") : m \in Methods}

\* the deployments of a handler: the module constants its module can have
\* been loaded with, and whether it is reached through server.js's router
\* (server) or called directly as a serverless function
EnvsFor(h) ==
    [token : BOOLEAN,
     device : IF h = "terminal" THEN BOOLEAN ELSE {FALSE},
     server : IF h \in MicroHandlers THEN {TRUE}
              ELSE IF h \in RoutedHandlers THEN BOOLEAN ELSE {FALSE}]

\* a request arrives: the handler runs its local checks and either answers
\* or goes on to its outbound phase
Receive(h, r, e) ==
    /\ pc = "idle"
    /\ UNCHANGED <<now, order, vcard, nuuid, prevKeys, buildVars>>
    /\ handler' = h
    /\ req' = r
    /\ menv' = e
    /\ IF Route(h, r, e) # "handler"
       THEN /\ resp' = Append(resp, RouterAnswer(Route(h, r, e)))
            /\ pc' = "done"
            /\ UNCHANGED attempt
       ELSE IF PreCheck(h, r, e) # Pass
       THEN /\ resp' = Append(resp, Sent(h, PreCheck(h, r, e)))
            /\ pc' = "done"
            /\ UNCHANGED attempt
       ELSE /\ pc' = IF h \in RetryHandlers THEN "retry" ELSE "start"
            /\ attempt' = IF h \in RetryHandlers THEN 1 ELSE 0
            /\ UNCHANGED resp
    /\ UNCHANGED <<errors, calls, cur, timer, thrown, vendor, created, seen, nthrow>>

\* retry() rejects with ex: the handler (or micro) answers
Rejected(ex) ==
    /\ thrown' = ex
    /\ resp' = Append(resp, Sent(handler, OnReject(handler, ex)))
    /\ pc' = "done"

\* onError(err): push the error, retry if the operation allows it, otherwise
\* reject with the operation's main error
OnError(message) ==
    LET errs == PushError(errors, message)
    IN  /\ errors' = errs
        /\ IF OpRetry(errs)
           THEN /\ attempt' = attempt + 1
                /\ UNCHANGED <<thrown, resp, pc>>
           ELSE /\ Rejected(MkErr("other", 0, "none", errs.mainMsg, errs.mainIdx))
                /\ UNCHANGED attempt

\* the cards square.cardsApi.createCard can return
VendorCards ==
    {MkCard(MkValue("bigint", 12, <<>>), MkValue("bigint", 2030, <<>>),
            MkValue("bigint", 1, <<>>)),
     MkCard(MkValue("number", 7, <<>>), MkValue("number", 2027, <<>>),
            MkValue("bigint", 104, <<>>)),
     MkCard(MkValue("bigint", 3, <<>>), MkValue("bigint", 2031, <<>>), NoValue)}

\* what createCard resolves with, as far as the handlers look at it
ResultsOf(h) == IF h \in SdkCardHandlers THEN VendorCards ELSE {NoCard}

\* v.toString() of a number or bigint
toString(v) == MkValue("string", 0, ToDecimal(v.num))

\* variant of SdkSuccess that leaves card.version as the vendor returned it
SdkSuccess_VersionAsIs(h, card) ==
    IF h \in SdkCardHandlers
    THEN [MkResp(200, "success", "cards") EXCEPT
            !.card = MkCard(toString(card.expMonth), toString(card.expYear),
                            card.version)]
    ELSE MkResp(200, "success", "payments")

\* the success response of an SDK handler; the card handlers convert
\* expMonth, expYear and version with toString() and then send the card
SdkSuccess(h, card) ==
    IF h \in SdkCardHandlers
    THEN [MkResp(200, "success", "cards") EXCEPT
            !.card = MkCard(toString(card.expMonth), toString(card.expYear),
                            toString(card.version))]
    ELSE MkResp(200, "success", "payments")

\* BigInt(payload.amount) throws a RangeError for a number that is not an
\* integer; the payment handlers evaluate it inside the retried function
BigIntThrows(h, p) == h \in SdkPaymentHandlers /\ p.amount = "frac"

\* result.card.<field>.toString() throws a TypeError when the field is absent
toStringThrows(h, card) ==
    /\ h \in SdkCardHandlers
    /\ \E f \in {"expMonth", "expYear", "version"} : card[f].type = "none"

\* an attempt of the SDK payment handlers whose request cannot be built: the
\* exception is not a SquareError, so the catch rethrows it to the executor
SdkBuildFails ==
    /\ pc = "retry"
    /\ handler \in SdkHandlers
    /\ BigIntThrows(handler, req.p)
    /\ OnError(RangeErrorMessage)
    /\ UNCHANGED <<handler, req, menv, calls, cur, timer, vendor, created, seen,
                   nthrow, now, order, vcard, nuuid, prevKeys, buildVars>>

\* one attempt of the SDK handlers (server.js createPayment and storeCard,
\* api/card.js, api/payment.js SDK variant)
SdkAttempt(o) ==
    /\ pc = "retry"
    /\ UNCHANGED <<now, order, nuuid, prevKeys, buildVars>>
    /\ handler \in SdkHandlers
    /\ ~BigIntThrows(handler, req.p)
    /\ Authorized(menv, o)
    /\ calls' = Append(calls, MkCall(EndpointOf(handler),
                                     IdempotencyKeyOf(req.p, attempt)))
    /\ Deliver(EndpointOf(handler), IdempotencyKeyOf(req.p, attempt), o)
    /\ CASE o.type = "ok" ->
              \E card \in ResultsOf(handler) :
                    /\ vcard' = card
                    /\ IF toStringThrows(handler, card)
                       THEN OnError(TypeErrorMessage)
                       ELSE /\ resp' = Append(resp,
                                    Sent(handler, SdkSuccess(handler, card)))
                            /\ pc' = "done"
                            /\ UNCHANGED <<errors, attempt, thrown>>
         [] o.type # "ok" /\ SdkCatch(o) = "bail" ->
              /\ Rejected(MkErr("square", o.status, o.errors, o.message, attempt))
              /\ UNCHANGED <<errors, attempt, vcard>>
         [] OTHER ->
              /\ OnError(o.message)
              /\ UNCHANGED vcard
    /\ Observe(o)
    /\ UNCHANGED <<handler, req, menv, cur, timer>>

\* one attempt of api/payment.js, retry + fetch variant
FetchRetryAttempt(o) ==
    /\ pc = "retry"
    /\ UNCHANGED <<now, order, vcard, nuuid, prevKeys, buildVars>>
    /\ handler = "payRetry"
    /\ calls' = Append(calls, MkCall("payments", IdempotencyKeyOf(req.p, attempt)))
    /\ Deliver("payments", IdempotencyKeyOf(req.p, attempt), o)
    /\ CASE FetchAttempt(o) = "ok" ->
              /\ resp' = Append(resp, Sent(handler, MkResp(200, "success", "payments")))
              /\ pc' = "done"
              /\ UNCHANGED <<errors, attempt, thrown>>
         [] FetchAttempt(o) = "bail" ->
              /\ Rejected(MkErr("http", o.status, o.errors,
                                IF o.message # "none" THEN o.message
                                ELSE "Payment failed", attempt))
              /\ UNCHANGED <<errors, attempt>>
         [] OTHER -> OnError(o.message)
    /\ Observe(o)
    /\ UNCHANGED <<handler, req, menv, cur, timer>>

----------------------------------------------------------------------------
(* Handlers that call the vendor with fetch(), without the retry executor:  *)
(* api/payment.js (direct fetch variant), api/terminal-checkout.js,          *)
(* api/terminal-checkout-status.js, api/items.js                             *)

\* the n-th value crypto.randomUUID() returns in the life of the process
randomUUID(n) == "uuid-" \o ToString(n)

\* how many times the same request is submitted
MaxRequests == 2

\* variant of order_idempotency_key that reuses the client's key
order_idempotency_key_FromPayload(p, n) == p.idempotencyKey

\* const order_idempotency_key = crypto.randomUUID(), n values having been
\* drawn before
order_idempotency_key(p, n) == randomUUID(n + 1)

\* crypto.randomUUID().slice(0, 64): a UUID has 36 characters
checkout_idempotency(n) == randomUUID(n + 1)

\* bodies of vendor responses: one that does not parse as JSON, or a JSON
\* object with or without an errors list, a message, and the entity asked for
\* (id: the id of that entity, "" without one)
MkBody(parses, errs, message, hasEntity) ==
    [parses |-> parses, errors |-> errs, message |-> message,
     hasEntity |-> hasEntity, id |-> IF hasEntity THEN "id-1" ELSE ""]

Bodies ==
    {MkBody(FALSE, "none", "none", FALSE)}
    \cup {MkBody(TRUE, e, m, i) :
            e \in {"none", "E1"}, m \in VendorMessages, i \in BOOLEAN}
    \cup {[MkBody(TRUE, "none", "none", TRUE) EXCEPT !.id = "id-2"]}

\* the first outbound call of a handler
FirstCall(h, r, n) ==
    CASE h = "payFetch" -> MkCall("payments", r.p.idempotencyKey)
      [] h = "terminal" -> MkCall("orders", order_idempotency_key(r.p, n))
      [] h = "status"   -> MkCall("checkout-status", "")
      [] h = "items"    -> MkCall("catalog", "")

\* the call in flight: phase 1 is the handler's first call, phase 2 the
\* checkout call of the terminal flow; ok/status are known once the response
\* headers have arrived; start is the time at which fetch() was called
InFlight(call, phase, ok, status, start) ==
    [endpoint |-> call.endpoint, key |-> call.key, ref |-> call.ref,
     phase |-> phase, ok |-> ok, status |-> status, start |-> start]

\* const timeoutId = setTimeout(() => controller.abort(), 20000)
ArmsTimer(h) == h \in TimerHandlers

\* clearTimeout(timeoutId) right after `await fetch(...)`: payment.js does it
\* for its only call, terminal-checkout.js for the checkout call only
ClearsAfterFetch(h, phase) ==
    \/ h = "payFetch"
    \/ h = "terminal" /\ phase = 2

Continue == MkResp(0, "continue", "")

\* { errors } when the vendor body has an errors list, else { error: message
\* || fallback }
ErrBody(status, b, fallback) ==
    MkResp(status,
           IF b.errors # "none" THEN "errors" ELSE "error",
           IF b.errors # "none" THEN b.errors
           ELSE IF b.message # "none" THEN b.message ELSE fallback)

\* what a handler does with a parsed response body
\* api/payment.js, direct fetch variant
OnPaymentBody(c, b) ==
    IF ~c.ok THEN ErrBody(c.status, b, "Payment failed")
    ELSE IF ~b.hasEntity THEN InternalError
    ELSE MkResp(200, "success", "payments")

\* variant of OnOrderBody without the `!order_res.ok` check
OnOrderBody_IgnoresStatus(c, b) ==
    IF ~b.hasEntity
    THEN MkResp(500, "error", "Order created but no order id in response")
    ELSE MkResp(0, "continue", "")

\* variant of OnOrderBody without the `!order_id` check
OnOrderBody_IgnoresMissingId(c, b) ==
    IF ~c.ok THEN ErrBody(c.status, b, "Order creation failed")
    ELSE MkResp(0, "continue", "")

\* api/terminal-checkout.js, order creation; Continue: go on to the checkout
OnOrderBody(c, b) ==
    IF ~c.ok THEN ErrBody(c.status, b, "Order creation failed")
    ELSE IF ~b.hasEntity
         THEN MkResp(500, "error", "Order created but no order id in response")
    ELSE Continue

\* variant of OnCheckoutBody that goes on to another call after a failed
\* checkout
OnCheckoutBody_CallsAgain(c, b) ==
    IF ~c.ok THEN Continue
    ELSE MkResp(200, "success", c.ref)

\* api/terminal-checkout.js, checkout creation; the success response
\* carries orderId: order_id, the id the checkout call referred to
OnCheckoutBody(c, b) ==
    IF ~c.ok THEN ErrBody(c.status, b, "Terminal checkout failed")
    ELSE MkResp(200, "success", c.ref)

\* variant of CheckoutCall whose body leaves order_id out
CheckoutCall_NoOrderId(order_id, key) == MkCall("checkouts", key)

\* the checkout call: checkout_body.checkout.order_id is the order_id read
\* from the order response
CheckoutCall(order_id, key) ==
    [MkCall("checkouts", key) EXCEPT !.ref = order_id]

\* api/terminal-checkout-status.js
OnStatusBody(c, b) ==
    IF ~c.ok THEN ErrBody(c.status, b, "Failed")
    ELSE MkResp(200, "success", "checkout-status")

\* api/items.js: the vendor body is passed on, with 500 when it is an error
OnItemsBody(c, b) ==
    IF ~c.ok THEN MkResp(500, "data", "vendor body")
    ELSE MkResp(200, "data", "vendor body")

OnBody(h, c, b) ==
    CASE h = "payFetch" -> OnPaymentBody(c, b)
      [] h = "terminal" /\ c.phase = 1 -> OnOrderBody(c, b)
      [] h = "terminal" /\ c.phase = 2 -> OnCheckoutBody(c, b)
      [] h = "status" -> OnStatusBody(c, b)
      [] h = "items" -> OnItemsBody(c, b)

\* variant of OnCatch without the AbortError case
OnCatch_NoAbortCase(h, name) == InternalError

\* catch (ex) of the timer-armed handlers and of status / items
OnCatch(h, name) ==
    IF h \in TimerHandlers /\ name = "AbortError"
    THEN MkResp(504, "error", "timeout")
    ELSE InternalError

\* variant of clearTimeout that leaves the timer armed
clearTimeout_Noop(t) == t

\* clearTimeout(timeout_id): an armed timer is disarmed, any other is left
clearTimeout(t) == IF t = "armed" THEN "cleared" ELSE t

\* after the local checks: arm the timer (if the handler has one) and issue
\* the first call
StartFetch ==
    /\ pc = "start"
    /\ UNCHANGED <<now, order, vcard, prevKeys, buildVars>>
    /\ calls' = Append(calls, FirstCall(handler, req, nuuid))
    /\ cur' = InFlight(FirstCall(handler, req, nuuid), 1, FALSE, 0, now)
    /\ nuuid' = IF handler = "terminal" THEN nuuid + 1 ELSE nuuid
    /\ timer' = IF ArmsTimer(handler) THEN "armed" ELSE timer
    /\ pc' = "headers"
    /\ UNCHANGED <<handler, req, menv, attempt, errors, resp, thrown, vendor,
                   created, seen, nthrow>>

\* fetch() rejects (network failure); the vendor may have processed the call
FetchRejects(processed) ==
    /\ pc = "headers"
    /\ UNCHANGED <<now, order, vcard, nuuid, prevKeys, buildVars>>
    /\ Deliver(cur.endpoint, cur.key,
               MkOutcome("throw", 0, "none", "fetch failed", processed))
    /\ timer' = clearTimeout(timer)
    /\ resp' = Append(resp, Sent(handler, OnCatch(handler, "TypeError")))
    /\ pc' = "done"
    /\ nthrow' = nthrow + 1
    /\ UNCHANGED <<handler, req, menv, attempt, errors, calls, cur, thrown, seen>>

\* fetch() resolves: the response headers are in, the body is still to be read
HeadersArrive(ok, status) ==
    /\ pc = "headers"
    /\ UNCHANGED <<now, order, vcard, nuuid, prevKeys, buildVars>>
    /\ Deliver(cur.endpoint, cur.key,
               MkOutcome(IF ok THEN "ok" ELSE "reject", status, "none", "none", ok))
    /\ cur' = [cur EXCEPT !.ok = ok, !.status = status]
    /\ timer' = IF ClearsAfterFetch(handler, cur.phase)
                THEN clearTimeout(timer)
                ELSE timer
    /\ pc' = "body"
    /\ UNCHANGED <<handler, req, menv, attempt, errors, calls, resp, thrown,
                   seen, nthrow>>

\* response.json() settles
BodyArrives(b) ==
    /\ pc = "body"
    /\ UNCHANGED <<now, vcard, prevKeys, buildVars>>
    /\ IF ~b.parses
       THEN /\ resp' = Append(resp, Sent(handler, OnCatch(handler, "SyntaxError")))
            /\ timer' = clearTimeout(timer)
            /\ pc' = "done"
            /\ UNCHANGED <<calls, cur, nuuid>>
       ELSE IF OnBody(handler, cur, b) = Continue
       THEN /\ calls' = Append(calls, CheckoutCall(b.id, checkout_idempotency(nuuid)))
            /\ cur' = InFlight(CheckoutCall(b.id, checkout_idempotency(nuuid)),
                               2, FALSE, 0, now)
            /\ nuuid' = nuuid + 1
            /\ pc' = "headers"
            /\ UNCHANGED <<resp, timer>>
       ELSE /\ resp' = Append(resp, Sent(handler, OnBody(handler, cur, b)))
            /\ timer' = clearTimeout(timer)
            /\ pc' = "done"
            /\ UNCHANGED <<calls, cur, nuuid>>
    /\ seen' = IF b.parses
               THEN MkSeen(Len(calls), cur.ok, cur.status, b.errors, b.message,
                           b.hasEntity)
               ELSE seen
    /\ nthrow' = IF b.parses THEN nthrow ELSE nthrow + 1
    /\ order' = IF b.parses /\ handler = "terminal" /\ cur.phase = 1
                THEN [ok |-> cur.ok, id |-> b.id]
                ELSE order
    /\ UNCHANGED <<handler, req, menv, attempt, errors, thrown, vendor, created>>

\* variant of TimerFires whose catch block returns without writing a response
TimerFires_Silent ==
    /\ timer = "armed"
    /\ now = SQUARE_REQUEST_TIMEOUT_MS
    /\ UNCHANGED <<now, order, vcard, nuuid, prevKeys, buildVars>>
    /\ pc \in {"headers", "body"}
    /\ timer' = "fired"
    /\ pc' = "done"
    /\ UNCHANGED <<handler, req, menv, attempt, errors, calls, cur, thrown,
                   vendor, created, seen, nthrow, resp>>

\* the 20 s timer expires while a call is in flight: controller.abort() makes
\* the pending fetch() or json() reject with an AbortError
TimerFires ==
    /\ timer = "armed"
    /\ now = SQUARE_REQUEST_TIMEOUT_MS
    /\ UNCHANGED <<now, order, vcard, nuuid, prevKeys, buildVars>>
    /\ pc \in {"headers", "body"}
    /\ timer' = "fired"
    /\ resp' = Append(resp, Sent(handler, OnCatch(handler, "AbortError")))
    /\ pc' = "done"
    /\ UNCHANGED <<handler, req, menv, attempt, errors, calls, cur, thrown,
                   vendor, created, seen, nthrow>>

\* the terminal-checkout request that has been served is submitted once
\* more, unchanged, to the same process: it passes the same local checks and
\* the handler starts over; the vendor's store and the UUIDs already drawn
\* stay as they are
Resubmit ==
    /\ pc = "done"
    /\ handler = "terminal"
    /\ calls # <<>>
    /\ Len(prevKeys) + 1 < MaxRequests
    /\ prevKeys' = Append(prevKeys, calls[1].key)
    /\ pc' = "start"
    /\ calls' = <<>>
    /\ cur' = NoCall
    /\ timer' = "unarmed"
    /\ resp' = <<>>
    /\ created' = 0
    /\ seen' = NoSeen
    /\ nthrow' = 0
    /\ now' = 0
    /\ order' = NoOrder
    /\ UNCHANGED <<handler, req, menv, attempt, errors, thrown, vendor, vcard,
                   nuuid, buildVars>>

\* time passes while a call is in flight under the armed timer (the timer
\* was armed at time 0, right before the first call)
Tick ==
    /\ timer = "armed"
    /\ pc \in {"headers", "body"}
    /\ now < SQUARE_REQUEST_TIMEOUT_MS
    /\ now' = now + TickMs
    /\ UNCHANGED <<handler, req, menv, pc, attempt, errors, calls, cur, timer,
                   resp, thrown, vendor, created, seen, nthrow, order, vcard, nuuid, prevKeys, buildVars>>

Next ==
    \/ \E h \in Handlers : \E r \in ReqsFor(h) : \E e \in EnvsFor(h) : Receive(h, r, e)
    \/ \E o \in Outcomes : SdkAttempt(o)
    \/ SdkBuildFails
    \/ \E o \in Outcomes : FetchRetryAttempt(o)
    \/ StartFetch
    \/ \E processed \in BOOLEAN : FetchRejects(processed)
    \/ \E ok \in BOOLEAN : \E status \in IF ok THEN {200} ELSE ErrStatuses :
            HeadersArrive(ok, status)
    \/ \E b \in Bodies : BodyArrives(b)
    \/ TimerFires
    \/ Tick
    \/ Resubmit

Spec == Init /\ [][Next]_vars

\* an attempt, once due, is eventually made and its vendor call settles
\* (the executor re-runs the function after each backoff timeout)
FairSpec ==
    /\ Spec
    /\ WF_vars(\E o \in Outcomes : SdkAttempt(o))
    /\ WF_vars(SdkBuildFails)
    /\ WF_vars(\E o \in Outcomes : FetchRetryAttempt(o))

\* the outbound call in flight returns, throws or is aborted
Settles ==
    \/ \E processed \in BOOLEAN : FetchRejects(processed)
    \/ \E ok \in BOOLEAN : \E status \in IF ok THEN {200} ELSE ErrStatuses :
            HeadersArrive(ok, status)
    \/ \E b \in Bodies : BodyArrives(b)
    \/ TimerFires

\* every step of a handler that is due is eventually taken, and every
\* outbound call eventually settles
LiveSpec ==
    /\ FairSpec
    /\ WF_vars(StartFetch)
    /\ WF_vars(Settles)

\* the vendor may stall for ever at any stage of a call; time passes and an
\* armed timer fires when its delay has elapsed
StallSpec ==
    /\ Spec
    /\ WF_vars(Tick)
    /\ WF_vars(TimerFires)

----------------------------------------------------------------------------
(* Properties *)

\* the request is answered: exactly one response, with this status
Answered(status) ==
    /\ pc = "done"
    /\ Len(resp) = 1
    /\ resp[1].status = status

\* a vendor rejection (terminal vendor error) answered call number n
RejectedAt(n) == seen.at = n /\ ~seen.ok

\* every outbound call made so far ended in an exception (transient failure)
AllTransient == calls # <<>> /\ nthrow = Len(calls)

\* C1: in the retrying handlers, when the first attempt is answered by a
\* terminal vendor error (a SquareError, a non-OK vendor response in the fetch
\* variant), that attempt is the only one: the executor has stopped and no
\* further vendor call is issued for the request.
C1_TerminalErrorNotRetried ==
    (handler \in RetryHandlers /\ RejectedAt(1)) =>
        (Len(calls) = 1 /\ pc = "done" /\ thrown.att = 1)

C1_Witness ==
    /\ handler \in SdkHandlers
    /\ RejectedAt(1)
    /\ pc = "done"
    /\ thrown.class = "square"

\* C2 as stated: after transient failures on every attempt the executor has
\* made exactly Retries + 1 attempts and surfaces the error of the last one.
C2_SurfacesLastAttempt ==
    (handler \in RetryHandlers /\ AllTransient /\ pc = "done") =>
        (Len(calls) = Retries + 1 /\ thrown.att = Len(calls))

\* what the executor surfaces after transient failures on every attempt:
\* exactly Retries + 1 attempts were made, and the error is the one of an
\* attempt whose message occurred at least as often as every other message
\* (the last attempt's error when all attempts failed with the same message)
C2_Surfaced ==
    (handler \in RetryHandlers /\ AllTransient /\ pc = "done") =>
        /\ Len(calls) = Retries + 1
        /\ thrown.class = "other"
        /\ thrown.att \in 1..Len(calls)
        /\ \A m \in Messages : errors.counts[thrown.message] >= errors.counts[m]
        /\ errors.counts[thrown.message] = Len(calls) => thrown.att = Len(calls)

\* C2 (amended), with its bound on the attempts and the termination of the
\* retry loop: never more than Retries + 1 attempts; after Retries + 1
\* transient failures the executor has stopped; what it surfaces is as in
\* C2_Surfaced; a running retry loop always comes to an end.
C2_CeilingThenMainError ==
    /\ [](handler \in RetryHandlers => Len(calls) <= Retries + 1)
    /\ []((handler \in RetryHandlers /\ AllTransient /\ Len(calls) = Retries + 1)
            => pc = "done")
    /\ []C2_Surfaced
    /\ (pc = "retry") ~> (pc = "done")

C2_Witness ==
    /\ handler \in RetryHandlers
    /\ AllTransient
    /\ pc = "done"
    /\ Len(calls) = Retries + 1
    /\ thrown.att < Len(calls)

\* C3: in the terminal-checkout flow, when the order-creation call is answered
\* by a non-OK response, the checkout call is never issued and the HTTP
\* response has the vendor's status code of the order call and its error list,
\* or its message when it has no error list.
C3_OrderFailureStopsFlow ==
    (handler = "terminal" /\ RejectedAt(1)) =>
        /\ Len(calls) = 1
        /\ Answered(seen.status)
        /\ seen.errors # "none" =>
              (resp[1].kind = "errors" /\ resp[1].val = seen.errors)
        /\ (seen.errors = "none" /\ seen.message # "none") =>
              (resp[1].kind = "error" /\ resp[1].val = seen.message)

C3_Witness ==
    /\ handler = "terminal"
    /\ RejectedAt(1)
    /\ seen.errors = "none"
    /\ seen.message # "none"
    /\ pc = "done"

\* C4: in the terminal-checkout flow, when order creation is answered by an OK
\* response whose body has no order id, the handler answers 500 and never
\* issues the checkout call.
C4_MissingOrderIdFailsClosed ==
    (handler = "terminal" /\ seen.at = 1 /\ seen.ok /\ ~seen.hasEntity) =>
        (Len(calls) = 1 /\ Answered(500))

C4_Witness ==
    /\ handler = "terminal"
    /\ seen.at = 1
    /\ seen.ok
    /\ ~seen.hasEntity
    /\ pc = "done"

\* C5: in the timer-armed handlers, when the timer has expired during an
\* outbound call, that call (the last one issued) was aborted, the handler has
\* finished without issuing another call, and the response is 504.
C5_TimeoutAborts ==
    (timer = "fired") =>
        /\ handler \in TimerHandlers
        /\ Len(calls) = cur.phase
        /\ Answered(504)

C5_Witness ==
    /\ timer = "fired"
    /\ handler = "terminal"
    /\ cur.phase = 1
    /\ pc = "done"

\* C6: within a payment or card-storage request every attempt of the retry
\* loop sends the client's idempotencyKey, and the vendor, deduplicating by
\* key, creates at most one payment or card for the request.
C6_StableIdempotencyKey ==
    (handler \in RetryHandlers) =>
        /\ \A i \in 1..Len(calls) : calls[i].key = req.p.idempotencyKey
        /\ created <= 1

\* every call failed after the vendor had processed one of them
C6_Witness ==
    /\ handler \in RetryHandlers
    /\ Len(calls) >= 3
    /\ AllTransient
    /\ created = 1

\* the payload validator a handler applies
Validates(h, p) ==
    IF h \in SdkCardHandlers THEN validateCreateCardPayload(p)
    ELSE validatePaymentPayload(p)

\* C7: in the payment and card-storage handlers, a POST whose body does not
\* parse or whose payload the validator rejects is answered with 400 and no
\* outbound vendor call is made.
C7_InvalidPayloadRejected ==
    (/\ handler \in PaymentHandlers \cup SdkCardHandlers
     /\ req.method = "POST"
     /\ (req.parse = "bad" \/ ~Validates(handler, req.p))) =>
        (calls = <<>> /\ created = 0 /\ Answered(400))

C7_Witness ==
    /\ handler = "payFetch"
    /\ req.method = "POST"
    /\ req.parse = "ok"
    /\ ~validatePaymentPayload(req.p)
    /\ menv.token
    /\ pc = "done"

\* C8: a status lookup (GET) whose checkout_id is absent or empty both in the
\* parsed query and in the URL is answered with 400 and no outbound call is
\* made, whether or not the access token is configured.
C8_MissingCheckoutId ==
    (/\ handler = "status"
     /\ req.method = "GET"
     /\ req.qid \in {"absent", "empty"}
     /\ req.uid \in {"absent", "empty"}) =>
        (calls = <<>> /\ Answered(400))

C8_Witness ==
    /\ handler = "status"
    /\ req.method = "GET"
    /\ req.qid = "empty"
    /\ req.uid = "absent"
    /\ ~menv.token
    /\ pc = "done"

\* C9 as stated: whenever the vendor rejected the request with an error list,
\* the HTTP response has the vendor's status code and that error list.
C9_VendorErrorPassedThrough ==
    (pc = "done" /\ seen.at > 0 /\ ~seen.ok /\ seen.errors # "none") =>
        /\ Answered(seen.status)
        /\ resp[1].kind = "errors"
        /\ resp[1].val = seen.errors

\* C10 as stated: in the retrying handlers, when the vendor call failed
\* transiently on every attempt up to the ceiling, the response is 500.
C10_TransientFailureIs500 ==
    (/\ handler \in RetryHandlers
     /\ AllTransient
     /\ Len(calls) = Retries + 1
     /\ pc = "done") =>
        Answered(500)

\* the request passes every local check that does not concern configuration
OtherwiseValid ==
    /\ pc # "idle"
    /\ Route(handler, req, menv) = "handler"
    /\ PreCheck(handler, req, [menv EXCEPT !.token = TRUE, !.device = TRUE]) = Pass

\* C11: in every handler that calls the vendor, a request that is otherwise
\* valid and arrives while SQUARE_ACCESS_TOKEN is not configured (in the
\* terminal-checkout handler: or SQUARE_TERMINAL_DEVICE_ID) is answered 500
\* and no outbound vendor call is made for it.
C11_MissingConfigIs500 ==
    (/\ OtherwiseValid
     /\ \/ ~menv.token
        \/ handler = "terminal" /\ ~menv.device)
    => (calls = <<>> /\ (pc = "done" => Answered(500)))

\* C12: every request that a handler has taken up is eventually answered
\* with exactly one HTTP response, whatever path it takes (local rejection,
\* vendor error, retry ceiling, timeout, success), provided every outbound
\* call eventually returns, throws or is aborted.
C12_EveryRequestAnswered ==
    (pc # "idle") ~> (pc = "done" /\ Len(resp) = 1)

C12_Witness ==
    /\ pc = "done"
    /\ Len(resp) = 1
    /\ timer = "fired"
    /\ Len(calls) = 2

\* the note the claim describes: the three fields joined by ' / ', the notes
\* trimmed and left out when blank, the result cut to 500 characters
ClaimedNote(p) ==
    slice(IF trim(p.customerNotes) # <<>>
          THEN Join3(p.productName, p.customerName, trim(p.customerNotes))
          ELSE Join2(p.productName, p.customerName), 500)

\* C13: in every handler that builds a note, for a payload that gives a
\* product name and a customer name, the note sent is productName / customerName
\* / trimmed customerNotes (no third segment when the trimmed notes are
\* empty), cut to its first 500 characters.
C13_NoteFormat ==
    (built.done /\ pin.productName # <<>> /\ pin.customerName # <<>>)
    => (built.note.hasNote /\ built.note.note = ClaimedNote(pin))

\* C14: in every payment and terminal-checkout handler, whatever the lengths
\* of the client's free-text fields, the note sent has a product name part of
\* at most 200 characters, a customer name part of at most 100, a notes part
\* of at most 200, and at most 500 characters in all.
C14_NoteLengthCaps ==
    (built.done /\ built.note.hasNote)
    => /\ length(built.note.product) <= 200
       /\ length(built.note.customer) <= 100
       /\ length(built.note.notes) <= 200
       /\ length(built.note.note) <= 500

\* the catalog / variation ids an explicit item carries
IdsOf(item) ==
    {item.catalog_object_id, item.catalogObjectId, item.variationId,
     item.variation_id} \ {<<>>}

\* C15: terminal-checkout order line items.  A non-empty line_items gives
\* exactly one line item per input item, in order: a catalog reference (one
\* of the item's ids, with its quantity) when the item has a catalog or
\* variation id, a name and price otherwise; the payload's catalog_object_id
\* is then not used.  Without line_items, a (non-blank) catalog_object_id
\* gives a single catalog reference with quantity 1, and otherwise there is
\* a single item made of the product name and the amount.  There is always
\* at least one line item.
C15_LineItemRule ==
    (built.done /\ pin.h = "terminal") =>
        LET li == built.line_items
            given == trim(pin.catalog_object_id) # <<>>
        IN  /\ Len(li) >= 1
            /\ Len(pin.line_items) > 0 =>
                  /\ Len(li) = Len(pin.line_items)
                  /\ \A i \in 1..Len(li) :
                        LET item == pin.line_items[i]
                        IN  /\ li[i].quantity =
                                  IF item.quantity = {} THEN <<"1">>
                                  ELSE ToDecimal(Some(item.quantity))
                            /\ given => li[i].catalog_object_id
                                            # trim(pin.catalog_object_id)
                            /\ IF IdsOf(item) # {}
                               THEN /\ li[i].kind = "catalog"
                                    /\ li[i].catalog_object_id \in IdsOf(item)
                               ELSE /\ li[i].kind = "named"
                                    /\ li[i].name \in {item.name, built.note.product}
                                    /\ li[i].name # <<>>
                                    /\ item.price # {} => li[i].amount = Some(item.price)
            /\ (Len(pin.line_items) = 0 /\ given) =>
                  /\ Len(li) = 1
                  /\ li[1].kind = "catalog"
                  /\ li[1].catalog_object_id = trim(pin.catalog_object_id)
                  /\ li[1].quantity = <<"1">>
            /\ (Len(pin.line_items) = 0 /\ ~given) =>
                  /\ Len(li) = 1
                  /\ li[1].kind = "named"
                  /\ li[1].name = built.note.product
                  /\ li[1].quantity = <<"1">>
                  /\ pin.amount > 0 => li[1].amount = pin.amount

C15_Witness ==
    /\ built.done
    /\ pin.h = "terminal"
    /\ Len(pin.line_items) = 2
    /\ trim(pin.catalog_object_id) # <<>>
    /\ built.line_items[1].kind = "named"
    /\ built.line_items[2].kind = "catalog"
    /\ built.line_items[2].quantity = <<"1", "2">>

\* C16: on either deployment path, every endpoint answers OPTIONS with 200
\* and the CORS headers, and any method other than OPTIONS and its own with
\* 405, in both cases without calling the vendor.
C16_OptionsAndOtherMethods ==
    (pc # "idle") =>
        /\ req.method = "OPTIONS" =>
              (Answered(200) /\ resp[1].cors /\ calls = <<>>)
        /\ req.method \notin {"OPTIONS", RouteMethod(handler)} =>
              (Answered(405) /\ calls = <<>>)

\* C17: every outbound call has its own deadline of 20 seconds, counted from
\* the start of that call: whenever the abort timer fires, the call it
\* aborts has been in flight for the full SQUARE_REQUEST_TIMEOUT_MS.
C17_OwnDeadlinePerCall ==
    (timer = "fired") => (now - cur.start >= SQUARE_REQUEST_TIMEOUT_MS)

\* C18: in the terminal-checkout flow the call in flight is always the last
\* one issued (the one before it has been answered in full), there are at
\* most two calls, the checkout call is issued only after an OK order
\* response with an order id has been read, and the order_id of the checkout
\* body and the orderId of the 200 response are both that id.
C18_CheckoutFollowsOrder ==
    (handler = "terminal") =>
        /\ Len(calls) <= 2
        /\ pc \in {"headers", "body"} => cur.phase = Len(calls)
        /\ Len(calls) = 2 =>
              /\ calls[1].endpoint = "orders"
              /\ calls[2].endpoint = "checkouts"
              /\ order.ok
              /\ order.id # ""
              /\ calls[2].ref = order.id
        /\ (Answered(200) /\ resp[1].kind = "success") => resp[1].val = order.id

C18_Witness ==
    /\ handler = "terminal"
    /\ Answered(200)
    /\ resp[1].kind = "success"
    /\ resp[1].val = "id-2"
    /\ calls[2].ref = "id-2"

CardFields == {"expMonth", "expYear", "version"}

\* C19: a card-storage success response carries expMonth, expYear and
\* version as strings, each the decimal form of the value the vendor
\* returned; none of them is a number.
C19_CardFieldsAreStrings ==
    (/\ handler \in SdkCardHandlers
     /\ pc = "done"
     /\ Len(resp) = 1
     /\ resp[1].kind = "success")
    => \A f \in CardFields :
          /\ resp[1].card[f].type = "string"
          /\ resp[1].card[f].str = ToDecimal(vcard[f].num)

C19_Witness ==
    /\ handler \in SdkCardHandlers
    /\ Answered(200)
    /\ resp[1].kind = "success"
    /\ vcard.version = MkValue("bigint", 104, <<>>)
    /\ resp[1].card.version = MkValue("string", 0, <<"1", "0", "4">>)
    /\ resp[1].card.expYear.str = <<"2", "0", "2", "7">>

\* C20: the key of the order-creation call is drawn fresh for every request:
\* it is no value of the client's payload, it differs from the key of the
\* checkout call and from the order key of every earlier submission of the
\* same payload, and so an order call that the vendor processes creates a
\* new order even when an identical request was served before.
C20_FreshOrderKey ==
    (handler = "terminal" /\ calls # <<>>) =>
        /\ calls[1].key \notin {req.p.idempotencyKey, req.p.sourceId,
                                req.p.locationId, req.p.customerId}
        /\ Len(calls) = 2 => calls[2].key # calls[1].key
        /\ \A i \in 1..Len(prevKeys) : prevKeys[i] # calls[1].key
        /\ <<"orders", calls[1].key>> \in vendor => created >= 1

C20_Witness ==
    /\ handler = "terminal"
    /\ Len(prevKeys) = 1
    /\ Answered(200)
    /\ <<"orders", prevKeys[1]>> \in vendor
    /\ <<"orders", calls[1].key>> \in vendor
    /\ created = 2

\* C21: a terminal-checkout request issues at most two outbound calls, the
\* first to create the order and the second to create the checkout; no call
\* cancels, modifies or compensates the order, however the checkout ends.
C21_NoCompensatingCall ==
    (handler = "terminal") =>
        /\ Len(calls) <= 2
        /\ \A i \in 1..Len(calls) :
              calls[i].endpoint = IF i = 1 THEN "orders" ELSE "checkouts"
        /\ pc = "done" => Len(resp) = 1

\* order created, no checkout created, error response sent
C21_Witness ==
    /\ handler = "terminal"
    /\ pc = "done"
    /\ Len(calls) = 2
    /\ <<"orders", calls[1].key>> \in vendor
    /\ <<"checkouts", calls[2].key>> \notin vendor
    /\ resp[1].status \in {402, 500, 504}

\* C22: for every combination of NODE_ENV and SQUARE_ENVIRONMENT, the base URL
\* of each payment handler, the environment reported by /api/config and the
\* credential file chosen by the configuration loader designate the same
\* environment.
C22_SameEnvironment ==
    (built.done /\ pin.h = "env") =>
        \A c, d \in {"payFetch", "payRetry", "terminal", "config", "loader"} :
            Designates(built.env[c]) = Designates(built.env[d])

\* C23: each request produces at most one response: once a response has been
\* written the handler is finished (no further attempt, no second response,
\* no 504 after another response), and in the timer-armed handlers the timer
\* is no longer armed when the handler has returned; a timer that fired
\* produced the only response, the 504.
C23_AtMostOneResponse ==
    /\ Len(resp) <= 1
    /\ resp # <<>> => pc = "done"
    /\ (handler \in RetryHandlers /\ pc = "retry") => resp = <<>>
    /\ pc = "done" => timer # "armed"
    /\ (pc = "done" /\ resp # <<>> /\ resp[1].status = 504) => timer = "fired"

C23_Witness ==
    /\ handler = "terminal"
    /\ pc = "done"
    /\ timer = "cleared"
    /\ cur.phase = 1
    /\ Len(resp) = 1
    /\ resp[1].status \in ErrStatuses

\* C24: in the SDK handlers a new attempt is started only after a failure of
\* the vendor call itself: the attempts made never exceed the vendor calls
\* that ended in an exception by more than one, so an exception raised
\* while the request is built or while a successful result is reshaped
\* starts no further attempt.
C24_RetryOnlyAfterCallFailure ==
    (handler \in SdkHandlers) => attempt <= nthrow + 1

C26_AnsweredByDeadline ==
    (handler \in TimerHandlers /\ pc \in {"headers", "body"}) ~> (pc = "done")

\* C27: for a terminal-checkout request the amount of the checkout's
\* amount_money, and of the line item synthesized when the payload has
\* neither line items nor a catalog id, is the client's amount; the default
\* 940 is never put in the place of an amount the client supplied, 0 included.
C27_ClientAmountSent ==
    (built.done /\ pin.h = "terminal") =>
        /\ built.amount_money = pin.amount
        /\ (Len(pin.line_items) = 0 /\ catalog_object_id(pin) = <<>>) =>
                built.line_items[1].amount = pin.amount

\* C28: in the direct-fetch payment, terminal-checkout and status handlers
\* the checks run in the order method, body parse, payload / identifier
\* validation, configuration, outbound call, and the first failing check
\* decides the response: a wrong method gives 405 whatever the body, a body
\* that does not parse or an invalid payload gives 400 even when the access
\* token is missing, a 500 without any call is given only to a request that
\* passed validation, and a call is made only when every check has passed.
C28_FirstFailingCheckWins ==
    LET own == IF handler = "status" THEN "GET" ELSE "POST"
        unparsed == handler # "status" /\ req.parse = "bad"
        invalid ==
            CASE handler = "payFetch" ->
                    \/ req.p.idempotencyKey = ""
                    \/ req.p.sourceId = ""
                    \/ req.p.locationId = ""
              [] handler = "terminal" ->
                    req.p.amount = "none" \/ req.p.locationId = ""
              [] handler = "status" ->
                    /\ req.qid \in {"absent", "empty"}
                    /\ req.uid \in {"absent", "empty"}
        configured == menv.token /\ (handler = "terminal" => menv.device)
    IN  (/\ handler \in {"payFetch", "terminal", "status"}
         /\ Route(handler, req, menv) = "handler") =>
            /\ req.method \notin {"OPTIONS", own} =>
                    (calls = <<>> /\ Answered(405))
            /\ (req.method = own /\ (unparsed \/ invalid)) =>
                    (calls = <<>> /\ Answered(400))
            /\ (pc = "done" /\ calls = <<>> /\ resp[1].status = 500) =>
                    (req.method = own /\ ~unparsed /\ ~invalid /\ ~configured)
            /\ calls # <<>> =>
                    (req.method = own /\ ~unparsed /\ ~invalid /\ configured)

C28_Witness ==
    /\ handler = "terminal"
    /\ Route(handler, req, menv) = "handler"
    /\ req.method = "POST"
    /\ req.parse = "ok"
    /\ req.p.amount = "none"
    /\ ~menv.token
    /\ ~menv.device
    /\ calls = <<>>
    /\ Answered(400)

====
